---- MODULE Spec2Model ----
(***************************************************************************)
(* A model of gh-commander's GitHub API helpers (gh_commander/github.py)   *)
(* and of its click extension (gh_commander/util/dclick.py).               *)
(*                                                                         *)
(* Python strings are sequences of one-character strings.  An optional     *)
(* value (None or a string) is a record [some, val]; None is               *)
(* [some |-> FALSE, val |-> <<>>].                                         *)
(***************************************************************************)
EXTENDS Naturals, Sequences, FiniteSets, TLC

VARIABLES
    memo,      \* api.memo: thread -> its `conns` attribute (the connection cache)
    logins,    \* the login / enterprise_login invocations made so far
    nextId,    \* how many session objects exist (the identity of the newest)
    returned,  \* history: thread -> the (triple, handle) api() returned without sentinel
    frame,     \* thread -> where it is: idle, inside api() before the login, in open()'s body
    last,      \* the step taken last: its inputs, outcome and the state before it
    MAP,       \* AliasedGroup.MAP of the group class
    commands,  \* click.Group.commands of the group
    lookups    \* history: name -> what get_command returned since the last registration

vars == <<memo, logins, nextId, returned, frame, last, MAP, commands, lookups>>

groupVars == <<MAP, commands, lookups>>

(***************************************************************************)
(* Optional values and Python truthiness                                   *)
(***************************************************************************)
None == [some |-> FALSE, val |-> <<>>]

Some(s) == [some |-> TRUE, val |-> s]

\* bool(x) of None or of a string: None and '' are both false.
Truthy(x) == x.some /\ x.val # <<>>

\* `x or d` for a string default d.
OrElse(x, d) == IF Truthy(x) THEN x.val ELSE d

(***************************************************************************)
(* String helpers                                                          *)
(***************************************************************************)
\* Index of the first c in s, 0 when there is none (str.find + 1).
FirstIdx(s, c) ==
    IF \E i \in 1..Len(s) : s[i] = c
    THEN CHOOSE i \in 1..Len(s) : s[i] = c /\ \A j \in 1..(i - 1) : s[j] # c
    ELSE 0

\* Index of the last c in s, 0 when there is none (str.rfind + 1).
LastIdx(s, c) ==
    IF \E i \in 1..Len(s) : s[i] = c
    THEN CHOOSE i \in 1..Len(s) : s[i] = c /\ \A j \in (i + 1)..Len(s) : s[j] # c
    ELSE 0

\* sep.join(parts)
RECURSIVE Join(_, _)
Join(sep, parts) ==
    IF parts = <<>> THEN <<>>
    ELSE IF Len(parts) = 1 THEN parts[1]
    ELSE parts[1] \o sep \o Join(sep, Tail(parts))

Scheme == <<"h", "t", "t", "p", "s", ":", "/", "/">>

TOKEN == <<"t", "o", "k", "e", "n">>

DEFAULT_HOST == <<"a", "p", "i", ".", "g", "i", "t", "h", "u", "b", ".", "c", "o", "m">>

DEFAULT_URL == Scheme \o DEFAULT_HOST

(***************************************************************************)
(* urlparse (gh_commander._compat re-exports the standard library's        *)
(* urlparse): the userinfo and host parts of the network location.         *)
(***************************************************************************)
\* Index of the first character of s that is in the set cs, 0 when none.
FirstIdxIn(s, cs) ==
    IF \E i \in 1..Len(s) : s[i] \in cs
    THEN CHOOSE i \in 1..Len(s) : s[i] \in cs /\ \A j \in 1..(i - 1) : s[j] \notin cs
    ELSE 0

\* The netloc of scheme://netloc/path?query#fragment ('' without "//").
Netloc(url) ==
    LET i == FirstIdx(url, ":")
    IN  IF i > 0 /\ Len(url) >= i + 2 /\ url[i + 1] = "/" /\ url[i + 2] = "/"
        THEN LET rest == SubSeq(url, i + 3, Len(url))
                 j    == FirstIdxIn(rest, {"/", "?", "#"})
             IN  IF j = 0 THEN rest ELSE SubSeq(rest, 1, j - 1)
        ELSE <<>>

\* netloc.rpartition('@'): userinfo is present only when there is an '@'.
UserInfo(netloc) ==
    LET k == LastIdx(netloc, "@")
    IN  IF k = 0 THEN None ELSE Some(SubSeq(netloc, 1, k - 1))

HostInfo(netloc) == SubSeq(netloc, LastIdx(netloc, "@") + 1, Len(netloc))

urlparse(url) ==
    LET netloc == Netloc(url)
        info   == UserInfo(netloc)
        c      == IF info.some THEN FirstIdx(info.val, ":") ELSE 0
        hinfo  == HostInfo(netloc)
        p      == FirstIdx(hinfo, ":")
        host   == IF p = 0 THEN hinfo ELSE SubSeq(hinfo, 1, p - 1)
    IN  [username |-> IF ~info.some THEN None
                      ELSE IF c = 0 THEN info
                      ELSE Some(SubSeq(info.val, 1, c - 1)),
         password |-> IF ~info.some \/ c = 0 THEN None
                      ELSE Some(SubSeq(info.val, c + 1, Len(info.val))),
         hostname |-> IF host = <<>> THEN None ELSE Some(host)]

(***************************************************************************)
(* Exceptions                                                              *)
(***************************************************************************)
\* kind: the exception class; msg: str(exception), a sequence of text pieces;
\* code and errors: the further fields of a GitHubError.
NoExc == [kind |-> "none", msg |-> <<>>, code |-> "", errors |-> <<>>]

Exc(kind, msg) == [kind |-> kind, msg |-> msg, code |-> "", errors |-> <<>>]

GitHubError(code, msg, errors) ==
    [kind |-> "GitHubError", msg |-> msg, code |-> code, errors |-> errors]

\* The names the module gh_commander.util.dclick binds.
DclickNames == {"absolute_import", "unicode_literals", "print_function", "click",
                "AliasedGroup"}

\* `raise dclick.LoggedFailure(msg)`: the attribute is looked up on the dclick
\* module first; a module that does not bind it raises AttributeError there.
RaiseLoggedFailure(msg) ==
    IF "LoggedFailure" \in DclickNames
    THEN Exc("LoggedFailure", msg)
    ELSE Exc("AttributeError", <<"module has no attribute 'LoggedFailure'">>)

(***************************************************************************)
(* The credentials file as netrc(NETRC_FILE) finds it                      *)
(***************************************************************************)
ENOENT == "ENOENT"

EACCES == "EACCES"

\* hosts: machine name -> [login, account, password] (each None or a string)
NetrcOk(hosts) == [res |-> "ok", errno |-> "", hosts |-> hosts]

NetrcIOError(errno) == [res |-> "IOError", errno |-> errno, hosts |-> <<>>]

NetrcParseError == [res |-> "NetrcParseError", errno |-> "", hosts |-> <<>>]

NoAuth == [found |-> FALSE, login |-> None, account |-> None, password |-> None]

\* hosts.get(name, None)
HostsGet(hosts, name) ==
    IF name \in DOMAIN hosts
    THEN [found |-> TRUE, login |-> hosts[name].login,
          account |-> hosts[name].account, password |-> hosts[name].password]
    ELSE NoAuth

(***************************************************************************)
(* GitHubConfig                                                            *)
(***************************************************************************)
\* __init__ before _get_auth
NewConfig(env) ==
    [base_url |-> env, user |-> None, login_or_token |-> None, password |-> None]

Built(cfg) == [exc |-> NoExc, cfg |-> cfg]

Raised(exc, cfg) == [exc |-> exc, cfg |-> cfg]

auth_valid(cfg) == Truthy(cfg.login_or_token)

\* ApplyAuth taking the token from the entry's first field.
ApplyAuthTokenFromLogin(cfg, auth) ==
    LET c1 == IF Truthy(auth.login) THEN [cfg EXCEPT !.user = auth.login] ELSE cfg
    IN  IF auth.password = Some(TOKEN)
        THEN [c1 EXCEPT !.login_or_token = auth.login, !.password = auth.password]
        ELSE IF Truthy(auth.password)
        THEN [c1 EXCEPT !.login_or_token = c1.user, !.password = auth.password]
        ELSE c1

\* ApplyAuth without the test `elif password:`.
ApplyAuthAnyPassword(cfg, auth) ==
    LET c1 == IF Truthy(auth.login) THEN [cfg EXCEPT !.user = auth.login] ELSE cfg
    IN  IF auth.password = Some(TOKEN)
        THEN [c1 EXCEPT !.login_or_token = auth.account, !.password = auth.password]
        ELSE [c1 EXCEPT !.login_or_token = c1.user, !.password = auth.password]

\* The interpretation of a found entry (username, account, password).
ApplyAuth(cfg, auth) ==
    LET c1 == IF Truthy(auth.login) THEN [cfg EXCEPT !.user = auth.login] ELSE cfg
    IN  IF auth.password = Some(TOKEN)
        THEN [c1 EXCEPT !.login_or_token = auth.account, !.password = auth.password]
        ELSE IF Truthy(auth.password)
        THEN [c1 EXCEPT !.login_or_token = c1.user, !.password = auth.password]
        ELSE c1

\* _get_auth_from_netrc returning on every IOError, whatever its errno.
get_auth_from_netrc_any_errno(cfg, hostname, file) ==
    IF file.res = "IOError"
    THEN Built(cfg)
    ELSE IF file.res = "NetrcParseError"
    THEN Raised(Exc("NetrcParseError", <<"bad toplevel token">>), cfg)
    ELSE IF Truthy(cfg.user) /\ ~hostname.some
    THEN Raised(Exc("TypeError", <<"cannot concatenate str and NoneType">>), cfg)
    ELSE LET specific == IF Truthy(cfg.user)
                         THEN HostsGet(file.hosts, cfg.user.val \o <<"@">> \o hostname.val)
                         ELSE NoAuth
             auth     == IF ~specific.found
                         THEN IF hostname.some THEN HostsGet(file.hosts, hostname.val)
                              ELSE NoAuth
                         ELSE specific
         IN  IF auth.found THEN Built(ApplyAuth(cfg, auth)) ELSE Built(cfg)

get_auth_from_netrc(cfg, hostname, file) ==
    IF file.res = "IOError"
    THEN IF file.errno # ENOENT
         THEN Raised(Exc("IOError", <<file.errno>>), cfg)
         ELSE Built(cfg)
    ELSE IF file.res = "NetrcParseError"
    THEN Raised(Exc("NetrcParseError", <<"bad toplevel token">>), cfg)
    ELSE IF Truthy(cfg.user) /\ ~hostname.some
    THEN Raised(Exc("TypeError", <<"cannot concatenate str and NoneType">>), cfg)
    ELSE LET specific == IF Truthy(cfg.user)
                         THEN HostsGet(file.hosts, cfg.user.val \o <<"@">> \o hostname.val)
                         ELSE NoAuth
             auth     == IF ~specific.found
                         THEN IF hostname.some THEN HostsGet(file.hosts, hostname.val)
                              ELSE NoAuth
                         ELSE specific
         IN  IF auth.found THEN Built(ApplyAuth(cfg, auth)) ELSE Built(cfg)

get_auth(cfg, file) ==
    LET auth_url == urlparse(OrElse(cfg.base_url, DEFAULT_URL))
        c1 == IF Truthy(auth_url.username) THEN [cfg EXCEPT !.user = auth_url.username]
              ELSE cfg
        c2 == IF Truthy(auth_url.password) THEN [c1 EXCEPT !.password = auth_url.password]
              ELSE c1
    IN  IF Truthy(c2.user) /\ Truthy(c2.password)
        THEN Built([c2 EXCEPT !.login_or_token = c2.user])
        ELSE get_auth_from_netrc(c2, auth_url.hostname, file)

\* GitHubConfig(config) with GH_API_BASE_URL = env and the credentials file `file`
GitHubConfig(env, file) == get_auth(NewConfig(env), file)

(***************************************************************************)
(* pretty_cause                                                            *)
(***************************************************************************)
pretty_cause(cause, prefix) ==
    LET base == <<"Status ", cause.code, " \"">> \o cause.msg \o <<"\"">>
        full == IF cause.errors # <<>>
                THEN base \o <<"\n    ">> \o Join(<<"\n    ">>, cause.errors)
                ELSE base
    IN  IF Truthy(prefix) THEN prefix.val \o <<": ">> \o full ELSE full

(***************************************************************************)
(* api(): the per-thread connection cache api.memo.conns                   *)
(***************************************************************************)
Threads == {"t1", "t2"}

\* How many session objects (real or pre-seeded) a run creates.
MaxHandles == 3

NoKwargs == [token |-> None, username |-> None, password |-> None, url |-> None]

NoHandle ==
    [id |-> 0, fake |-> FALSE, method |-> "", kwargs |-> NoKwargs,
     gh_config |-> NewConfig(None), owner |-> ""]

\* threading.local(): every thread starts without a `conns` attribute.
NoConns == [set |-> FALSE, conns |-> <<>>]

\* api.memo.__dict__.setdefault('conns', {})
SetDefault(m) == IF m.set THEN m ELSE [set |-> TRUE, conns |-> <<>>]

\* A namespace shared by all threads (a plain attribute instead of threading.local()).
MemoShared(t) == "t1"

\* The thread-local namespace a call running in thread t sees.
MemoOf(t) == t

\* '~'.join([cfg.login_or_token, cfg.password or '', cfg.base_url or cfg.DEFAULT_URL])
CacheKey(cfg) ==
    Join(<<"~">>, <<cfg.login_or_token.val, OrElse(cfg.password, <<>>),
                    OrElse(cfg.base_url, DEFAULT_URL)>>)

\* `None in api.memo.conns`
HasSentinel(conns) == None \in DOMAIN conns

\* The lookup key without the test for the sentinel entry.
LookupKeyNoSentinel(conns, cfg) == Some(CacheKey(cfg))

\* The key api() looks up: None when the sentinel entry exists.
LookupKey(conns, cfg) == IF HasSentinel(conns) THEN None ELSE Some(CacheKey(cfg))

\* The resolved (login_or_token, password, base_url) of a configuration.
Triple(cfg) == <<cfg.login_or_token, cfg.password, cfg.base_url>>

LoginKwargs(cfg) ==
    LET url == IF Truthy(cfg.base_url) THEN cfg.base_url ELSE None
    IN  IF cfg.password = Some(TOKEN)
        THEN [token |-> cfg.login_or_token, username |-> None, password |-> None,
              url |-> url]
        ELSE [token |-> None, username |-> cfg.login_or_token,
              password |-> cfg.password, url |-> url]

AuthMethod(cfg) == IF Truthy(cfg.base_url) THEN "enterprise_login" ELSE "login"

\* auth_method(**kwargs), then apiobj.gh_config = cfg
NewSession(id, t, cfg) ==
    [id |-> id, fake |-> FALSE, method |-> AuthMethod(cfg), kwargs |-> LoginKwargs(cfg),
     gh_config |-> cfg, owner |-> t]

\* The session is never stored.
StoreNothing(conns, key, apiobj) == conns

\* api.memo.conns[key] = apiobj
Store(conns, key, apiobj) == (key :> apiobj) @@ conns

InsufficientCredentials ==
    RaiseLoggedFailure(<<"Attempt to connect to GitHub API",
                         " with insufficient credentials! Check your configuration.">>)

(***************************************************************************)
(* open(): the handlers around api() and around the yield                  *)
(***************************************************************************)
\* except IOError / except NetrcParseError around apiobj = api(config)
OpenEntryError(e) ==
    IF e.kind = "IOError"
    THEN RaiseLoggedFailure(<<"Input error while connecting to GitHub API (">>
                            \o e.msg \o <<")">>)
    ELSE IF e.kind = "NetrcParseError"
    THEN RaiseLoggedFailure(<<"Error while parsing credentials (">> \o e.msg \o <<")">>)
    ELSE e

\* except ConnectionError / except GitHubError around the yield
OpenExitError(e) ==
    IF e.kind = "ConnectionError"
    THEN RaiseLoggedFailure(<<"HTTP connect error (">> \o e.msg \o <<")">>)
    ELSE IF e.kind = "GitHubError"
    THEN RaiseLoggedFailure(pretty_cause(e, Some(<<"API">>)))
    ELSE e

(***************************************************************************)
(* The record of the last step                                             *)
(***************************************************************************)
NoFile == [res |-> "", errno |-> "", hosts |-> <<>>]

IdleFrame ==
    [at |-> "idle", via |-> "", cfg |-> NewConfig(None), key |-> None,
     sentinel |-> FALSE, handle |-> NoHandle]

\* op: what ran; env, file: its inputs; cfgExc: what GitHubConfig() raised;
\* apiExc: what left api(); bodyExc: what the body of `with open()` raised;
\* exc: what left the operation; key: the cache key looked up (None: the sentinel);
\* hit: the key was cached; yields: how often open() has yielded;
\* before, loginsBefore: memo and logins before the step.
BaseLast(t, op, env, file, cfg) ==
    [t |-> t, op |-> op, env |-> env, file |-> file, cfg |-> cfg,
     cfgExc |-> NoExc, apiExc |-> NoExc, bodyExc |-> NoExc, exc |-> NoExc,
     handle |-> NoHandle, key |-> None, sentinel |-> FALSE, hit |-> FALSE, yields |-> 0,
     before |-> memo, loginsBefore |-> logins]

OpName(via, done) ==
    IF via = "api" THEN (IF done THEN "api" ELSE "api_lookup")
    ELSE (IF done THEN "open_enter" ELSE "open_lookup")

\* An exception leaves api(): nothing is stored; open() translates it at its entry.
ApiRaises(t, via, env, file, cfg, cfgExc, e) ==
    /\ last' = [BaseLast(t, OpName(via, TRUE), env, file, cfg) EXCEPT
                   !.cfgExc = cfgExc, !.apiExc = e,
                   !.exc = IF via = "open" THEN OpenEntryError(e) ELSE e]
    /\ UNCHANGED <<memo, logins, nextId, returned, frame>>

\* api() returns apiobj to its caller; open() yields it to the body.  The history
\* keeps the triple this call resolved with the handle it got.
Returns(t, via, cfg, apiobj, sentinel) ==
    /\ frame' = [frame EXCEPT ![t] =
                    IF via = "open"
                    THEN [IdleFrame EXCEPT !.at = "body", !.via = via, !.cfg = cfg,
                                           !.handle = apiobj]
                    ELSE IdleFrame]
    /\ returned' = IF sentinel THEN returned
                   ELSE [returned EXCEPT ![t] =
                            @ \cup {[triple |-> Triple(cfg), id |-> apiobj.id]}]

Pending == Cardinality({u \in Threads : frame[u].at = "login"})

(***************************************************************************)
(* api(config), lines 118-131: build the configuration, check it, look up  *)
(***************************************************************************)
\* Lines 123-131 for a valid configuration cfg, with m1 the thread's namespace
\* after setdefault: a cached handle is returned, a missing one is to be created.
ApiLookup(t, via, env, file, cfg, m1) ==
    IF LookupKey(m1.conns, cfg) \in DOMAIN m1.conns
    THEN /\ memo' = [memo EXCEPT ![MemoOf(t)] = m1]
         /\ Returns(t, via, cfg, m1.conns[LookupKey(m1.conns, cfg)], HasSentinel(m1.conns))
         /\ last' = [BaseLast(t, OpName(via, TRUE), env, file, cfg) EXCEPT
                        !.handle = m1.conns[LookupKey(m1.conns, cfg)],
                        !.key = LookupKey(m1.conns, cfg),
                        !.sentinel = HasSentinel(m1.conns),
                        !.hit = TRUE, !.yields = IF via = "open" THEN 1 ELSE 0]
         /\ UNCHANGED <<logins, nextId>>
    ELSE /\ nextId + Pending < MaxHandles
         /\ memo' = [memo EXCEPT ![MemoOf(t)] = m1]
         /\ frame' = [frame EXCEPT ![t] =
                         [IdleFrame EXCEPT !.at = "login", !.via = via, !.cfg = cfg,
                                           !.key = LookupKey(m1.conns, cfg),
                                           !.sentinel = HasSentinel(m1.conns)]]
         /\ last' = [BaseLast(t, OpName(via, FALSE), env, file, cfg) EXCEPT
                        !.key = LookupKey(m1.conns, cfg),
                        !.sentinel = HasSentinel(m1.conns)]
         /\ UNCHANGED <<logins, nextId, returned>>

\* Lines 118-121 on the outcome r of GitHubConfig(config), then the lookup.
ApiCheck(t, via, env, file, r) ==
    IF r.exc.kind # "none"
    THEN ApiRaises(t, via, env, file, r.cfg, r.exc, r.exc)
    ELSE IF ~auth_valid(r.cfg)
    THEN ApiRaises(t, via, env, file, r.cfg, NoExc, InsufficientCredentials)
    ELSE ApiLookup(t, via, env, file, r.cfg, SetDefault(memo[MemoOf(t)]))

ApiEnter(t, via, env, file) ==
    /\ frame[t].at = "idle"
    /\ ApiCheck(t, via, env, file, GitHubConfig(env, file))
    /\ UNCHANGED groupVars

(***************************************************************************)
(* api(config), lines 131-147: the KeyError branch and the return          *)
(***************************************************************************)
ApiLogin(t) ==
    /\ frame[t].at = "login"
    /\ LET f      == frame[t]
           apiobj == NewSession(nextId + 1, t, frame[t].cfg)
       IN  /\ nextId' = nextId + 1
           /\ logins' = logins \cup {[id |-> apiobj.id, t |-> t, method |-> apiobj.method,
                                      kwargs |-> apiobj.kwargs, triple |-> Triple(f.cfg)]}
           /\ memo' = [memo EXCEPT ![MemoOf(t)].conns = Store(@, f.key, apiobj)]
           /\ Returns(t, f.via, f.cfg, apiobj, f.sentinel)
           /\ last' = [BaseLast(t, OpName(f.via, TRUE), None, NoFile, f.cfg) EXCEPT
                          !.handle = apiobj, !.key = f.key, !.sentinel = f.sentinel,
                          !.yields = IF f.via = "open" THEN 1 ELSE 0]
    /\ UNCHANGED groupVars

(***************************************************************************)
(* A test pre-seeds the calling thread's cache: api.memo.conns[None] = fake *)
(***************************************************************************)
SeedSentinel(t) ==
    /\ frame[t].at = "idle"
    /\ nextId + Pending < MaxHandles
    /\ ~HasSentinel(memo[MemoOf(t)].conns)
    /\ LET fake == [NoHandle EXCEPT !.id = nextId + 1, !.fake = TRUE, !.owner = t]
       IN  /\ memo' = [memo EXCEPT ![MemoOf(t)] =
                          [set |-> TRUE, conns |-> Store(@.conns, None, fake)]]
           /\ nextId' = nextId + 1
           /\ last' = [BaseLast(t, "seed", None, NoFile, NewConfig(None)) EXCEPT
                          !.handle = fake]
    /\ UNCHANGED <<logins, returned, frame>>
    /\ UNCHANGED groupVars

(***************************************************************************)
(* open(config): the body of the `with` block ends                         *)
(***************************************************************************)
BodyErrors ==
    {Exc("ConnectionError", <<"Connection refused">>),
     GitHubError("404", <<"Not Found">>, <<>>),
     GitHubError("422", <<"Validation Failed">>,
                 << <<"field x required">>, <<"field y invalid">> >>),
     Exc("ValueError", <<"invalid literal">>)}

\* e = NoExc: the body ends normally.
OpenExit(t, e) ==
    /\ frame[t].at = "body"
    /\ frame' = [frame EXCEPT ![t] = IdleFrame]
    /\ last' = [BaseLast(t, "open_exit", None, NoFile, frame[t].cfg) EXCEPT
                   !.handle = frame[t].handle, !.bodyExc = e, !.exc = OpenExitError(e),
                   !.yields = 1]
    /\ UNCHANGED <<memo, logins, nextId, returned>>
    /\ UNCHANGED groupVars

(***************************************************************************)
(* AliasedGroup                                                            *)
(***************************************************************************)
Names == {"ls", "list", "rm"}

NoCommand == [name |-> ""]

\* dict.get(k, d)
DictGet(d, k, default) == IF k \in DOMAIN d THEN d[k] ELSE default

\* click.Group.get_command(self, ctx, cmd_name): self.commands.get(cmd_name)
GroupGetCommand(cmds, cmd_name) ==
    IF cmd_name \in DOMAIN cmds
    THEN [found |-> TRUE, cmd |-> cmds[cmd_name]]
    ELSE [found |-> FALSE, cmd |-> NoCommand]

\* get_command following aliases of aliases.
get_command_transitive(map, cmds, cmd_name) ==
    GroupGetCommand(cmds, DictGet(map, DictGet(map, cmd_name, cmd_name),
                                  DictGet(map, cmd_name, cmd_name)))

\* AliasedGroup.get_command(self, ctx, cmd_name)
get_command(map, cmds, cmd_name) ==
    GroupGetCommand(cmds, DictGet(map, cmd_name, cmd_name))

\* The group registers a command under its name (click's add_command).
AddCommand(n) ==
    /\ n \notin DOMAIN commands
    /\ commands' = (n :> [name |-> n]) @@ commands
    /\ lookups' = <<>>
    /\ last' = [op |-> "add_command", cmd_name |-> n,
                result |-> [found |-> FALSE, cmd |-> NoCommand],
                MAP |-> MAP, commands |-> commands]
    /\ UNCHANGED <<MAP, memo, logins, nextId, returned, frame>>

GetCommand(n) ==
    /\ lookups' = (n :> get_command(MAP, commands, n)) @@ lookups
    /\ last' = [op |-> "get_command", cmd_name |-> n,
                result |-> get_command(MAP, commands, n),
                MAP |-> MAP, commands |-> commands]
    /\ UNCHANGED <<MAP, commands, memo, logins, nextId, returned, frame>>

(***************************************************************************)
(* Inputs                                                                  *)
(***************************************************************************)
\* The longest login, account and password the credential resolution is run on.
MaxLen == 1

Alphabet == {"a", "~"}

Strs == UNION {[1..n -> Alphabet] : n \in 0..MaxLen}

OptStrs == {None} \cup {Some(x) : x \in Strs}

GHE_HOST == <<"g", "h", "e">>

\* scheme://[user[:password]@]host
MkUrl(user, password, host) ==
    Scheme
    \o (IF user.some \/ password.some
        THEN user.val \o (IF password.some THEN <<":">> \o password.val ELSE <<>>) \o <<"@">>
        ELSE <<>>)
    \o host

\* Values of GH_API_BASE_URL: unset, or a URL with or without user, password, host.
CfgEnvs ==
    {None, Some(<<>>)}
    \cup {Some(MkUrl(u, p, h)) :
            u \in {None, Some(<<"a">>)}, p \in {None, Some(<<"b">>), Some(TOKEN)},
            h \in {GHE_HOST, <<>>}}

CfgEntries ==
    [login : OptStrs, account : OptStrs, password : OptStrs \cup {Some(TOKEN)}]

CfgMachines ==
    {DEFAULT_HOST, GHE_HOST, <<"a", "@">> \o GHE_HOST, <<"o", "t", "h", "e", "r">>}

\* What netrc(NETRC_FILE) finds: no file, an unreadable or malformed one, or entries.
CfgFiles ==
    {NetrcIOError(ENOENT), NetrcIOError(EACCES), NetrcParseError, NetrcOk(<<>>)}
    \cup {NetrcOk(m :> e) : m \in CfgMachines, e \in CfgEntries}
    \cup {NetrcOk((GHE_HOST :> e1) @@ ((<<"a", "@">> \o GHE_HOST) :> e2)) :
            e1 \in {[login |-> Some(<<"a">>), account |-> None, password |-> Some(<<"a">>)]},
            e2 \in CfgEntries}

Entry(login, account, password) ==
    [login |-> Some(login), account |-> account, password |-> Some(password)]

\* The environments and credentials files api() and open() are called under.
ApiInputs ==
    {[env |-> None, file |-> f] :
        f \in {NetrcIOError(ENOENT), NetrcIOError(EACCES), NetrcParseError,
               NetrcOk(DEFAULT_HOST :> Entry(<<"a">>, None, <<"~", "a">>)),
               NetrcOk(DEFAULT_HOST :> Entry(<<"a", "~">>, None, <<"a">>)),
               NetrcOk(DEFAULT_HOST :> Entry(<<"a">>, Some(<<"x">>), TOKEN))}}
    \cup {[env |-> Some(MkUrl(Some(<<"a">>), Some(<<"a">>), GHE_HOST)),
           file |-> NetrcIOError(ENOENT)]}

AliasMaps == UNION {[D -> Names] : D \in SUBSET Names}

(***************************************************************************)
(* Specifications                                                          *)
(***************************************************************************)
InitApi ==
    /\ memo = [t \in Threads |-> NoConns]
    /\ logins = {}
    /\ nextId = 0
    /\ returned = [t \in Threads |-> {}]
    /\ frame = [t \in Threads |-> IdleFrame]
    /\ last = BaseLast("", "init", None, NoFile, NewConfig(None))

Init ==
    /\ InitApi
    /\ MAP = <<>>
    /\ commands = <<>>
    /\ lookups = <<>>

\* The construction is run once on each environment and credentials file.
InitCfg ==
    /\ memo = [t \in Threads |-> NoConns]
    /\ logins = {}
    /\ nextId = 0
    /\ returned = [t \in Threads |-> {}]
    /\ frame = [t \in Threads |-> IdleFrame]
    /\ \E env \in CfgEnvs, file \in CfgFiles :
           last = BaseLast("", "input", env, file, NewConfig(env))
    /\ MAP = <<>>
    /\ commands = <<>>
    /\ lookups = <<>>

\* cfg = GitHubConfig(config) on its own
Construct ==
    /\ last.op = "input"
    /\ last' = [last EXCEPT !.op = "GitHubConfig",
                            !.cfg = GitHubConfig(last.env, last.file).cfg,
                            !.cfgExc = GitHubConfig(last.env, last.file).exc,
                            !.exc = GitHubConfig(last.env, last.file).exc]
    /\ UNCHANGED <<memo, logins, nextId, returned, frame>>
    /\ UNCHANGED groupVars

MainThread == "t1"

\* api(config) on its own, under the same environment and credentials file
ApiOnInput ==
    /\ last.op = "input"
    /\ ApiEnter(MainThread, "api", last.env, last.file)

NextCfg ==
    \/ Construct
    \/ ApiOnInput
    \/ ApiLogin(MainThread)

SpecCfg == InitCfg /\ [][NextCfg]_vars

\* api() called from several threads
Next ==
    \E t \in Threads :
        \/ \E in \in ApiInputs : ApiEnter(t, "api", in.env, in.file)
        \/ ApiLogin(t)
        \/ SeedSentinel(t)

Spec == Init /\ [][Next]_vars

\* api() and `with open()` in one thread
NextOpen ==
    \/ \E in \in ApiInputs : ApiEnter(MainThread, "api", in.env, in.file)
    \/ \E in \in ApiInputs : ApiEnter(MainThread, "open", in.env, in.file)
    \/ ApiLogin(MainThread)
    \/ SeedSentinel(MainThread)
    \/ \E e \in BodyErrors \cup {NoExc} : OpenExit(MainThread, e)

SpecOpen == Init /\ [][NextOpen]_vars

InitGroup ==
    /\ InitApi
    /\ MAP \in AliasMaps
    /\ commands = <<>>
    /\ lookups = <<>>

NextGroup == \E n \in Names : AddCommand(n) \/ GetCommand(n)

SpecGroup == InitGroup /\ [][NextGroup]_vars

(***************************************************************************)
(* Properties                                                              *)
(***************************************************************************)
\* A completed api() call, made directly.
ApiDone == last.op = "api"

\* The cache of the calling thread before the last step.
CacheBefore == last.before[last.t].conns

\* Every entry of cache `old` is still in cache `new`, with the same handle.
Kept(old, new) ==
    \A k \in DOMAIN old : k \in DOMAIN new /\ new[k] = old[k]

\* C1: within one thread and without a sentinel entry, api() calls that resolve the
\* same (login_or_token, password, base_url) return the same session handle, at most
\* one of them (the first) invokes login / enterprise_login, and no step replaces or
\* removes a cache entry.
C1_SameTripleSameHandle ==
    /\ \A t \in Threads : \A p, q \in returned[t] :
           p.triple = q.triple => p.id = q.id
    /\ \A t \in Threads : \A l1, l2 \in logins :
           (l1.t = t /\ l2.t = t /\ l1.triple = l2.triple) => l1.id = l2.id
    /\ \A t \in Threads : \A l \in logins : \A p \in returned[t] :
           (l.t = t /\ l.triple = p.triple) => l.id = p.id
    /\ \A t \in Threads : Kept(last.before[t].conns, memo[t].conns)

\* A call found the handle of an earlier call with the same triple, other entries
\* having been stored after that handle.
C1_Witness ==
    /\ ApiDone /\ last.hit /\ ~last.sentinel
    /\ Triple(last.handle.gh_config) = Triple(last.cfg)
    /\ \E k \in DOMAIN memo[last.t].conns : memo[last.t].conns[k].id > last.handle.id

\* C2: within one thread and without a sentinel entry, api() calls whose resolved
\* login_or_token differ return distinct session handles.
C2_DifferentLoginDistinctHandle ==
    \A t \in Threads : \A p, q \in returned[t] :
        p.triple[1] # q.triple[1] => p.id # q.id

\* C3: an api() call whose configuration has auth_valid() false raises a
\* LoggedFailure, invokes no login, leaves the cache as it was and returns no handle.
C3_InsufficientCredentials ==
    (ApiDone /\ last.cfgExc = NoExc /\ ~auth_valid(last.cfg)) =>
        /\ last.exc.kind = "LoggedFailure"
        /\ logins = last.loginsBefore
        /\ memo = last.before
        /\ last.handle = NoHandle

\* C4 as claimed: with a sentinel entry in the thread's cache, every api() call
\* returns the pre-seeded handle, computes no real key, invokes no login and leaves
\* the cache unchanged.
C4_SentinelEveryCall ==
    (ApiDone /\ HasSentinel(CacheBefore)) =>
        /\ last.handle = CacheBefore[None]
        /\ last.key = None
        /\ logins = last.loginsBefore
        /\ memo = last.before

\* C4 as amended: with a sentinel entry in the thread's cache, every api() call whose
\* configuration has auth_valid() true returns the pre-seeded handle without error,
\* computes no real key, invokes no login and leaves the cache unchanged.
C4_SentinelValidCall ==
    (ApiDone /\ HasSentinel(CacheBefore) /\ last.cfgExc = NoExc /\ auth_valid(last.cfg)) =>
        /\ last.exc = NoExc
        /\ last.handle = CacheBefore[None]
        /\ last.handle.fake
        /\ last.key = None
        /\ logins = last.loginsBefore
        /\ memo = last.before

\* A call with real credentials got the pre-seeded handle although the cache also
\* holds a real entry.
C4_Witness ==
    /\ ApiDone /\ HasSentinel(CacheBefore) /\ auth_valid(last.cfg)
    /\ last.handle.fake
    /\ \E k \in DOMAIN CacheBefore : k.some

\* C5: a step of one thread leaves every other thread's cache as it was; the handles
\* in a thread's cache and the handles api() returned to it were created by that
\* thread's own login (or pre-seeded by it); no entry is ever replaced.
C5_ThreadLocalCache ==
    /\ \A u \in Threads : u # last.t => memo[u] = last.before[u]
    /\ \A t \in Threads : \A k \in DOMAIN memo[t].conns : memo[t].conns[k].owner = t
    /\ \A t \in Threads : \A p \in returned[t] :
           \E l \in logins : l.id = p.id /\ l.t = t
    /\ (ApiDone /\ last.exc = NoExc) => last.handle.owner = last.t
    /\ \A t \in Threads : Kept(last.before[t].conns, memo[t].conns)

\* One thread stored its own handle for a key while the other thread was between
\* its lookup of the same key and its insert, and already holds no entry for it.
C5_Witness ==
    /\ ApiDone /\ last.t = "t2" /\ ~last.hit /\ last.key.some
    /\ frame["t1"].at = "login" /\ frame["t1"].key = last.key
    /\ last.key \notin DOMAIN memo["t1"].conns

\* The URL (or the default URL) carries no username and no password.
NoUrlCredentials(env) ==
    /\ ~Truthy(urlparse(OrElse(env, DEFAULT_URL)).username)
    /\ ~Truthy(urlparse(OrElse(env, DEFAULT_URL)).password)

\* The credentials file was read and has an entry for the URL's host.
HostEntryFound(env, file) ==
    /\ file.res = "ok"
    /\ urlparse(OrElse(env, DEFAULT_URL)).hostname.some
    /\ urlparse(OrElse(env, DEFAULT_URL)).hostname.val \in DOMAIN file.hosts

HostEntry(env, file) == file.hosts[urlparse(OrElse(env, DEFAULT_URL)).hostname.val]

TokenCase ==
    /\ last.op = "GitHubConfig"
    /\ NoUrlCredentials(last.env)
    /\ HostEntryFound(last.env, last.file)
    /\ HostEntry(last.env, last.file).password = Some(TOKEN)

ReadFails ==
    /\ last.op \in {"api", "open_enter"}
    /\ last.file.res = "IOError" /\ last.file.errno # ENOENT
    /\ NoUrlCredentials(last.env)

\* The credentials file is read and does not exist.
FileMissing ==
    /\ last.op \in {"api", "open_enter"}
    /\ last.file = NetrcIOError(ENOENT)
    /\ NoUrlCredentials(last.env)

ExpectedExitMessage(e) ==
    IF e.kind = "ConnectionError" THEN <<"HTTP connect error (">> \o e.msg \o <<")">>
    ELSE pretty_cause(e, Some(<<"API">>))

\* C8: the handle is yielded once; a ConnectionError or GitHubError of the body
\* leaves open() as a LoggedFailure with the documented message, never as itself;
\* any other error leaves unchanged; the cache is not modified on exit.
C8_ExitTranslation ==
    last.op = "open_exit" =>
        /\ last.yields = 1
        /\ memo = last.before
        /\ last.bodyExc.kind \in {"ConnectionError", "GitHubError"} =>
               /\ last.exc.kind = "LoggedFailure"
               /\ last.exc.msg = ExpectedExitMessage(last.bodyExc)
               /\ last.exc # last.bodyExc
        /\ last.bodyExc.kind \notin {"ConnectionError", "GitHubError"} =>
               last.exc = last.bodyExc

\* The name the lookup is made under.
Canonical(name) == IF name \in DOMAIN MAP THEN MAP[name] ELSE name

C10_ValidHasPassword ==
    /\ (last.op \in {"GitHubConfig", "api", "api_lookup"} /\ last.cfgExc = NoExc
        /\ auth_valid(last.cfg)) => Truthy(last.cfg.password)
    /\ \A t \in Threads : frame[t].at = "login" =>
           /\ Truthy(frame[t].cfg.password)
           /\ OrElse(frame[t].cfg.password, <<>>) = frame[t].cfg.password.val
    /\ \A l \in logins :
           Truthy(l.kwargs.token) \/ (Truthy(l.kwargs.username) /\ Truthy(l.kwargs.password))

\* A user name from the URL and a password from the credentials file made a valid
\* configuration.
C10_Witness ==
    /\ last.op = "GitHubConfig" /\ auth_valid(last.cfg)
    /\ Truthy(urlparse(OrElse(last.env, DEFAULT_URL)).username)
    /\ ~Truthy(urlparse(OrElse(last.env, DEFAULT_URL)).password)
    /\ last.file.res = "ok"
    /\ last.cfg.password # Some(TOKEN)

====
